---- MODULE Spec2Model ----
(***************************************************************************)
(* Model of docs/update-index.py: the scan -> extract -> render -> persist *)
(* pipeline of the Markdown index updater.                                 *)
(*                                                                         *)
(* Text is modelled as sequences of one-character strings, so that the     *)
(* substring, split, strip and case operations of the script are computed  *)
(* and not assumed.  A path is a sequence of components, each component a  *)
(* character sequence.                                                     *)
(*                                                                         *)
(* One run of main() is a behaviour: the walk over the tree directory by   *)
(* directory and file by file, the rendering, and the two writes.  What    *)
(* the environment decides (a directory that cannot be listed, a failing   *)
(* os.stat, a failing open or write) is a step of its own.  The progress   *)
(* lines main() prints and the time stamps taken from the clock are left   *)
(* out.  Three specifications share the steps and differ in the trees the  *)
(* run starts from: Spec (shape of the tree), SpecExtract (content of one  *)
(* document), SpecRecent (modification times of many documents).           *)
(***************************************************************************)
EXTENDS Integers, Sequences, FiniteSets, TLC

VARIABLES
    files,          \* the documents tree: sequence of file entries, in listing order
    pc,             \* position of main()
    walkStack,      \* os.walk: directories still to be visited
    curFiles,       \* os.walk: files of the yielded directory not yet looked at
    documents,      \* scan_documents: the list being built
    listErrors,     \* directories whose listing failed (os.walk swallows the error)
    reported,       \* paths of the "Error processing ..." lines printed
    error,          \* the exception that ended the run, "none" while there is none
    index_content,  \* main: the rendered index
    indexFile,      \* INDEX.md on disk
    snapshotFile    \* metadata.json on disk

vars == <<files, pc, walkStack, curFiles, documents, listErrors, reported, error,
          index_content, indexFile, snapshotFile>>

----------------------------------------------------------------------------
(* Bounds of the model *)

MaxFiles == 2       \* files in a tree of Spec
MaxPieces == 3      \* pieces a content of SpecExtract is made of
MaxRecent == 6      \* files of SpecRecent
MaxTime == 2        \* st_mtime ranges over 0..MaxTime
DstEnd == 2         \* tick at which the local clock is set back
TicksPerDay == 2    \* ticks of st_mtime in a calendar day

(* Program constants *)

SummaryLimit == 200     \* paragraphs[0][:200]
TitleScanLines == 10    \* lines[:10]
HeaderMaxLevel == 3     \* if level <= 3
QuickCount == 5         \* docs_by_date[:5]
ExcerptLimit == 60      \* doc['summary'][:60]

----------------------------------------------------------------------------
(* Characters and strings *)

Alpha == <<"a","b","c","d","e","f","g","h","i","j","k","l","m",
           "n","o","p","q","r","s","t","u","v","w","x","y","z">>
Cap   == <<"A","B","C","D","E","F","G","H","I","J","K","L","M",
           "N","O","P","Q","R","S","T","U","V","W","X","Y","Z">>

IsUpper(c) == \E i \in 1..26 : Cap[i] = c
IsLower(c) == \E i \in 1..26 : Alpha[i] = c
IsCased(c) == IsUpper(c) \/ IsLower(c)

\* str.lower() and str.upper() on one character
LowerChar(c) == IF IsUpper(c) THEN Alpha[CHOOSE i \in 1..26 : Cap[i] = c] ELSE c
UpperChar(c) == IF IsLower(c) THEN Cap[CHOOSE i \in 1..26 : Alpha[i] = c] ELSE c

\* content.lower()
Lower(s) == [i \in 1..Len(s) |-> LowerChar(s[i])]

\* str.isspace() on the characters of the model
IsSpace(c) == c \in {" ", "\n", "\t", "\r"}

\* s.startswith(p), s.endswith(p)
StartsWith(s, p) ==
    /\ Len(p) <= Len(s)
    /\ \A j \in 1..Len(p) : s[j] = p[j]
EndsWith(s, p) ==
    /\ Len(p) <= Len(s)
    /\ \A j \in 1..Len(p) : s[Len(s) - Len(p) + j] = p[j]

\* p occurs in s at position i
MatchAt(s, p, i) == \A j \in 1..Len(p) : s[i + j - 1] = p[j]

\* p in s
Contains(p, s) == \E i \in 1..(Len(s) - Len(p) + 1) : MatchAt(s, p, i)

\* s.replace(a, b) for single characters
ReplaceChar(s, a, b) == [i \in 1..Len(s) |-> IF s[i] = a THEN b ELSE s[i]]

\* s.strip()
Strip(s) ==
    IF \A i \in 1..Len(s) : IsSpace(s[i]) THEN <<>>
    ELSE LET first == CHOOSE i \in 1..Len(s) :
                        ~IsSpace(s[i]) /\ \A j \in 1..(i-1) : IsSpace(s[j])
             last  == CHOOSE i \in 1..Len(s) :
                        ~IsSpace(s[i]) /\ \A j \in (i+1)..Len(s) : IsSpace(s[j])
         IN  SubSeq(s, first, last)

\* s.lstrip('#')
LStripMarker(s) ==
    IF \A i \in 1..Len(s) : s[i] = "#" THEN <<>>
    ELSE LET first == CHOOSE i \in 1..Len(s) :
                        s[i] # "#" /\ \A j \in 1..(i-1) : s[j] = "#"
         IN  SubSeq(s, first, Len(s))

\* s.split()[0] of a string that holds a non-space character
FirstToken(s) ==
    LET first == CHOOSE i \in 1..Len(s) :
                    ~IsSpace(s[i]) /\ \A j \in 1..(i-1) : IsSpace(s[j])
        stops == {i \in first..Len(s) : IsSpace(s[i])}
        stop  == IF stops = {} THEN Len(s) + 1
                 ELSE CHOOSE i \in stops : \A k \in stops : i <= k
    IN  SubSeq(s, first, stop - 1)

\* s.split(sep): the pieces between the occurrences of sep, found left to
\* right without overlap
RECURSIVE SplitFrom(_, _, _)
SplitFrom(s, sep, p) ==
    LET hits == {i \in p..(Len(s) - Len(sep) + 1) : MatchAt(s, sep, i)}
    IN  IF hits = {} THEN << SubSeq(s, p, Len(s)) >>
        ELSE LET i == CHOOSE h \in hits : \A k \in hits : h <= k
             IN  << SubSeq(s, p, i - 1) >> \o SplitFrom(s, sep, i + Len(sep))
Split(s, sep) == SplitFrom(s, sep, 1)

\* s.title(): a cased character is upper-cased after an uncased one (or at
\* the start) and lower-cased after a cased one
Title(s) ==
    [i \in 1..Len(s) |->
        IF i > 1 /\ IsCased(s[i-1]) THEN LowerChar(s[i]) ELSE UpperChar(s[i])]

\* Path(name).stem: the name without its last suffix
Stem(name) ==
    LET dots == {i \in 2..(Len(name) - 1) : name[i] = "."}
    IN  IF dots = {} THEN name
        ELSE LET i == CHOOSE d \in dots : \A k \in dots : k <= d
             IN  SubSeq(name, 1, i - 1)

\* a prefix of a sequence, s[:n]
Take(s, n) == SubSeq(s, 1, IF n < Len(s) THEN n ELSE Len(s))

Range(s) == {s[i] : i \in 1..Len(s)}

----------------------------------------------------------------------------
(* Configuration *)

DOCS_DIR == << <<"d","o","c","s">> >>
INDEX_FILE == <<"I","N","D","E","X",".","m","d">>
QUICK_REF_FILE == <<"Q","U","I","C","K","_","R","E","F","E","R","E","N","C","E",".","m","d">>
MdSuffix == <<".","m","d">>
Ellipsis == <<".",".",".">>
Newline == <<"\n">>
BlankLine == <<"\n","\n">>
TitleMarker == <<"#"," ">>
HeaderMarker == <<"#">>

\* the categories, in declaration order, each with its keywords
CATEGORY_PATTERNS ==
    << [category |-> "Authentication System", patterns |->
         << <<"a","u","t","h">>,
            <<"l","o","g","i","n">>,
            <<"s","i","g","n","i","n">>,
            <<"s","i","g","n","u","p">>,
            <<"s","e","s","s","i","o","n">> >>],
       [category |-> "Admin & Management", patterns |->
         << <<"a","d","m","i","n">>,
            <<"d","a","s","h","b","o","a","r","d">>,
            <<"m","a","n","a","g","e","m","e","n","t">> >>],
       [category |-> "Development & UI", patterns |->
         << <<"u","i">>,
            <<"c","o","m","p","o","n","e","n","t">>,
            <<"t","h","e","m","e">>,
            <<"d","e","v","e","l","o","p","m","e","n","t">>,
            <<"l","o","g">> >>],
       [category |-> "API Documentation", patterns |->
         << <<"a","p","i">>,
            <<"e","n","d","p","o","i","n","t">>,
            <<"r","o","u","t","e">> >>],
       [category |-> "Security", patterns |->
         << <<"s","e","c","u","r","i","t","y">>,
            <<"p","e","r","m","i","s","s","i","o","n">>,
            <<"r","a","t","e">>,
            <<"a","u","d","i","t">> >>],
       [category |-> "Configuration", patterns |->
         << <<"c","o","n","f","i","g">>,
            <<"s","e","t","u","p">>,
            <<"e","n","v">>,
            <<"s","e","t","t","i","n","g","s">> >>],
       [category |-> "Notes & Memos", patterns |->
         << <<"m","e","m","o">>,
            <<"n","o","t","e">>,
            <<"t","o","d","o">>,
            <<"r","e","m","i","n","d","e","r">> >>] >>

Uncategorized == "Uncategorized"

tag_patterns ==
    << <<"a","u","t","h","e","n","t","i","c","a","t","i","o","n">>,
       <<"u","i">>,
       <<"a","p","i">>,
       <<"s","e","c","u","r","i","t","y">>,
       <<"a","d","m","i","n">>,
       <<"d","e","v","e","l","o","p","m","e","n","t">>,
       <<"c","o","n","f","i","g","u","r","a","t","i","o","n">> >>

----------------------------------------------------------------------------
(* extract_metadata *)

\* the title derived from the file name
DefaultTitle(name) ==
    Title(ReplaceChar(ReplaceChar(Stem(name), "_", " "), "-", " "))

\* the metadata dict as initialised before the file is opened
DefaultMetadata(name) ==
    [title |-> DefaultTitle(name), category |-> Uncategorized,
     tags |-> <<>>, summary |-> <<>>, headers |-> <<>>]

\* for line in lines[:10]: the first line starting with "# " gives the title
RECURSIVE TitleFrom(_, _, _)
TitleFrom(lines, i, default) ==
    IF i > Len(lines) THEN default
    ELSE IF StartsWith(lines[i], TitleMarker)
         THEN Strip(SubSeq(lines[i], 3, Len(lines[i])))
         ELSE TitleFrom(lines, i + 1, default)
ExtractTitle(lines, default) == TitleFrom(Take(lines, TitleScanLines), 1, default)

\* level = len(line.split()[0])
HeaderLevel(line) == Len(FirstToken(line))

\* for line in lines: a line starting with '#' whose level is at most 3 is
\* appended as {level, text}
RECURSIVE HeadersFrom(_, _)
HeadersFrom(lines, i) ==
    IF i > Len(lines) THEN <<>>
    ELSE (IF StartsWith(lines[i], HeaderMarker) /\ HeaderLevel(lines[i]) <= HeaderMaxLevel
          THEN << [level |-> HeaderLevel(lines[i]),
                   text  |-> Strip(LStripMarker(lines[i]))] >>
          ELSE <<>>)
         \o HeadersFrom(lines, i + 1)
ExtractHeaders(lines) == HeadersFrom(lines, 1)

\* any(pattern in content_lower for pattern in patterns)
AnyPattern(patterns, content_lower) ==
    \E k \in 1..Len(patterns) : Contains(patterns[k], content_lower)

\* for category, patterns in CATEGORY_PATTERNS.items(): ... break
RECURSIVE CategoryFrom(_, _)
CategoryFrom(content_lower, i) ==
    IF i > Len(CATEGORY_PATTERNS) THEN Uncategorized
    ELSE IF AnyPattern(CATEGORY_PATTERNS[i].patterns, content_lower)
         THEN CATEGORY_PATTERNS[i].category
         ELSE CategoryFrom(content_lower, i + 1)

\* the loop without its break: the last matching category stays
RECURSIVE CategoryNoBreakFrom(_, _, _)
CategoryNoBreakFrom(content_lower, i, current) ==
    IF i > Len(CATEGORY_PATTERNS) THEN current
    ELSE CategoryNoBreakFrom(content_lower, i + 1,
            IF AnyPattern(CATEGORY_PATTERNS[i].patterns, content_lower)
            THEN CATEGORY_PATTERNS[i].category ELSE current)
ExtractCategoryNoBreak(content_lower) ==
    CategoryNoBreakFrom(content_lower, 1, Uncategorized)

ExtractCategory(content_lower) == CategoryFrom(content_lower, 1)

\* f"#{tag}"
TagOf(tag) == <<"#">> \o tag

\* the tags inserted at the front instead of appended
RECURSIVE TagsPrependFrom(_, _, _)
TagsPrependFrom(content_lower, i, acc) ==
    IF i > Len(tag_patterns) THEN acc
    ELSE TagsPrependFrom(content_lower, i + 1,
            IF Contains(tag_patterns[i], content_lower)
            THEN << TagOf(tag_patterns[i]) >> \o acc ELSE acc)
ExtractTagsPrepend(content_lower) == TagsPrependFrom(content_lower, 1, <<>>)

\* for tag in tag_patterns: if tag in content_lower: tags.append(f"#{tag}")
RECURSIVE TagsFrom(_, _)
TagsFrom(content_lower, i) ==
    IF i > Len(tag_patterns) THEN <<>>
    ELSE (IF Contains(tag_patterns[i], content_lower)
          THEN << TagOf(tag_patterns[i]) >> ELSE <<>>)
         \o TagsFrom(content_lower, i + 1)
ExtractTags(content_lower) == TagsFrom(content_lower, 1)

\* [p.strip() for p in content.split('\n\n')
\*            if p.strip() and not p.strip().startswith('#')]
RECURSIVE ParagraphsFrom(_, _)
ParagraphsFrom(pieces, i) ==
    IF i > Len(pieces) THEN <<>>
    ELSE LET p == Strip(pieces[i])
         IN  (IF p # <<>> /\ ~StartsWith(p, HeaderMarker) THEN << p >> ELSE <<>>)
             \o ParagraphsFrom(pieces, i + 1)
Paragraphs(content) == ParagraphsFrom(Split(content, BlankLine), 1)

\* the truncation test off by one: >= instead of >
SummaryOfAtLimit(paragraph) ==
    IF Len(paragraph) >= SummaryLimit
    THEN Take(paragraph, SummaryLimit) \o Ellipsis
    ELSE paragraph

\* paragraphs[0][:200] + "..." if len(paragraphs[0]) > 200 else paragraphs[0]
SummaryOf(paragraph) ==
    IF Len(paragraph) > SummaryLimit
    THEN Take(paragraph, SummaryLimit) \o Ellipsis
    ELSE paragraph

ExtractSummary(content) ==
    LET paragraphs == Paragraphs(content)
    IN  IF paragraphs # <<>> THEN SummaryOf(paragraphs[1]) ELSE <<>>

\* extract_metadata(file_path): a file that cannot be opened, read or decoded
\* raises inside the try block before any field is assigned
extract_metadata(f) ==
    IF ~f.readable THEN DefaultMetadata(f.name)
    ELSE LET content == f.content
             lines == Split(content, Newline)
             content_lower == Lower(content)
         IN  [title    |-> ExtractTitle(lines, DefaultTitle(f.name)),
              category |-> ExtractCategory(content_lower),
              tags     |-> ExtractTags(content_lower),
              summary  |-> ExtractSummary(content),
              headers  |-> ExtractHeaders(lines)]

----------------------------------------------------------------------------
(* The documents tree and os.walk *)

\* the directories of the tree: the root and every prefix of a file's directory
DirsOf(fs) ==
    {<<>>} \cup UNION {{SubSeq(fs[i].dir, 1, n) : n \in 1..Len(fs[i].dir)} :
                        i \in 1..Len(fs)}

\* the entries of directory d that are directories
SubDirs(fs, d) ==
    {s \in DirsOf(fs) : Len(s) = Len(d) + 1 /\ SubSeq(s, 1, Len(d)) = d}

\* the entries of directory d that are files, in listing order
RECURSIVE FilesInFrom(_, _, _)
FilesInFrom(fs, d, i) ==
    IF i > Len(fs) THEN <<>>
    ELSE (IF fs[i].dir = d THEN << i >> ELSE <<>>) \o FilesInFrom(fs, d, i + 1)
FilesIn(fs, d) == FilesInFrom(fs, d, 1)

\* the orders in which a listing can return the members of S
Orders(S) ==
    {o \in [1..Cardinality(S) -> S] : \A i, j \in 1..Cardinality(S) : i # j => o[i] # o[j]}

\* dirs[:] = [d for d in dirs if not d.startswith('.')]
KeptDirs(fs, d) == {s \in SubDirs(fs, d) : ~StartsWith(s[Len(s)], <<".">>)}

\* file.endswith('.md') and file not in [INDEX_FILE, QUICK_REF_FILE]
Eligible(name) ==
    /\ EndsWith(name, MdSuffix)
    /\ name \notin {INDEX_FILE, QUICK_REF_FILE}

\* os.path.relpath(os.path.join(root, file), DOCS_DIR)
RelPath(f) == f.dir \o << f.name >>

\* datetime.fromtimestamp: the naive local time; the local clock is set back
\* by one tick at DstEnd, so two instants can share a local time
FromTimestamp(t) == IF t < DstEnd THEN t + 1 ELSE t

\* doc_info with the extracted metadata merged in
DocInfo(f) ==
    LET m == extract_metadata(f)
    IN  [path      |-> RelPath(f),
         full_path |-> DOCS_DIR \o RelPath(f),
         name      |-> f.name,
         modified  |-> FromTimestamp(f.mtime),
         size      |-> Len(f.content),
         title     |-> m.title,
         category  |-> m.category,
         tags      |-> m.tags,
         summary   |-> m.summary,
         headers   |-> m.headers]

----------------------------------------------------------------------------
(* scan_documents *)

\* os.walk yields the next directory: its files are to be looked at, its
\* sub-directories that are not hidden are walked next, in listing order
WalkList ==
    /\ pc = "scan" /\ curFiles = <<>> /\ walkStack # <<>>
    /\ LET d == Head(walkStack)
       IN  /\ curFiles' = FilesIn(files, d)
           /\ \E o \in Orders(KeptDirs(files, d)) :
                 walkStack' = o \o Tail(walkStack)
    /\ UNCHANGED <<files, reported, pc, documents, listErrors, error,
                   index_content, indexFile, snapshotFile>>

\* os.walk cannot list the next directory: with onerror left at None the
\* OSError of scandir is dropped and the directory is passed over
WalkListError ==
    /\ pc = "scan" /\ curFiles = <<>> /\ walkStack # <<>>
    /\ listErrors' = listErrors \cup {Head(walkStack)}
    /\ walkStack' = Tail(walkStack)
    /\ UNCHANGED <<files, reported, pc, curFiles, documents, error,
                   index_content, indexFile, snapshotFile>>

\* a file that is not a document is passed over
ScanSkip ==
    /\ pc = "scan" /\ curFiles # <<>>
    /\ ~Eligible(files[Head(curFiles)].name)
    /\ curFiles' = Tail(curFiles)
    /\ UNCHANGED <<files, reported, pc, walkStack, documents, listErrors, error,
                   index_content, indexFile, snapshotFile>>

\* os.stat raises: the exception leaves scan_documents and main
ScanStatError ==
    /\ pc = "scan" /\ curFiles # <<>>
    /\ Eligible(files[Head(curFiles)].name)
    /\ pc' = "aborted"
    /\ error' = "stat"
    /\ UNCHANGED <<files, reported, walkStack, curFiles, documents, listErrors,
                   index_content, indexFile, snapshotFile>>

\* a file whose content cannot be read is left out of the result
ScanAppendSkipUnreadable ==
    /\ pc = "scan" /\ curFiles # <<>>
    /\ Eligible(files[Head(curFiles)].name)
    /\ documents' = IF files[Head(curFiles)].readable
                    THEN Append(documents, DocInfo(files[Head(curFiles)]))
                    ELSE documents
    /\ reported' = IF files[Head(curFiles)].readable THEN reported
                   ELSE Append(reported, DOCS_DIR \o RelPath(files[Head(curFiles)]))
    /\ curFiles' = Tail(curFiles)
    /\ UNCHANGED <<files, pc, walkStack, listErrors, error,
                   index_content, indexFile, snapshotFile>>

\* the record of a document is appended; extract_metadata prints the error
\* of a file it could not read
ScanAppend ==
    /\ pc = "scan" /\ curFiles # <<>>
    /\ Eligible(files[Head(curFiles)].name)
    /\ documents' = Append(documents, DocInfo(files[Head(curFiles)]))
    /\ reported' = IF files[Head(curFiles)].readable THEN reported
                   ELSE Append(reported, DOCS_DIR \o RelPath(files[Head(curFiles)]))
    /\ curFiles' = Tail(curFiles)
    /\ UNCHANGED <<files, pc, walkStack, listErrors, error,
                   index_content, indexFile, snapshotFile>>

\* the walk is over: return documents
ScanReturn ==
    /\ pc = "scan" /\ curFiles = <<>> /\ walkStack = <<>>
    /\ pc' = "render"
    /\ UNCHANGED <<files, reported, walkStack, curFiles, documents, listErrors, error,
                   index_content, indexFile, snapshotFile>>

----------------------------------------------------------------------------
(* generate_index *)

\* the sort with a record put in front of the records of equal key
RECURSIVE SortByDateUnstable(_)
SortByDateUnstable(docs) ==
    IF docs = <<>> THEN <<>>
    ELSE LET n == Len(docs)
             rest == SortByDateUnstable(SubSeq(docs, 1, n - 1))
             d == docs[n]
             k == Cardinality({i \in 1..Len(rest) : rest[i].modified > d.modified})
         IN  SubSeq(rest, 1, k) \o << d >> \o SubSeq(rest, k + 1, Len(rest))

\* sorted(documents, key=lambda x: x["modified"], reverse=True): a stable
\* sort, records of equal key keep their order
RECURSIVE SortByDate(_)
SortByDate(docs) ==
    IF docs = <<>> THEN <<>>
    ELSE LET n == Len(docs)
             rest == SortByDate(SubSeq(docs, 1, n - 1))
             d == docs[n]
             k == Cardinality({i \in 1..Len(rest) : rest[i].modified >= d.modified})
         IN  SubSeq(rest, 1, k) \o << d >> \o SubSeq(rest, k + 1, Len(rest))

\* strftime('%Y-%m-%d') and strftime('%Y-%m-%d %H:%M')
StrfDate(m) == << m \div TicksPerDay >>
StrfMinute(m) == << m \div TicksPerDay, m % TicksPerDay >>

\* isoformat()
IsoFormat(m) == << m \div TicksPerDay, "T", m % TicksPerDay >>

\* max(documents, key=lambda x: x['size']): the first of the largest
Largest(docs) ==
    docs[CHOOSE i \in 1..Len(docs) :
            /\ \A j \in 1..Len(docs) : docs[j].size <= docs[i].size
            /\ \A j \in 1..(i-1) : docs[j].size < docs[i].size]

\* f" - {doc['summary'][:60]}..." if doc['summary'] else ""
Excerpt(summary) ==
    IF summary # <<>> THEN Take(summary, ExcerptLimit) \o Ellipsis ELSE <<>>

\* the rendered index: the fields of the text that depend on the documents.
\* The order of the lines of the category sections (by label, then by file
\* name) is left out.
generate_index(docs) ==
    LET docs_by_date == SortByDate(docs)
        categories == {docs[i].category : i \in 1..Len(docs)}
    IN  [total |-> Len(docs),
         quick |-> [i \in 1..Len(Take(docs_by_date, QuickCount)) |->
                      [title |-> docs_by_date[i].title,
                       path  |-> docs_by_date[i].path,
                       date  |-> StrfDate(docs_by_date[i].modified)]],
         by_category |-> [c \in categories |->
                      {[title |-> docs[i].title, path |-> docs[i].path,
                        excerpt |-> Excerpt(docs[i].summary)] :
                          i \in {j \in 1..Len(docs) : docs[j].category = c}}],
         n_categories |-> Cardinality(categories),
         last_update |-> IF docs_by_date # <<>>
                         THEN StrfMinute(docs_by_date[1].modified) ELSE <<"N/A">>,
         largest |-> IF docs # <<>> THEN Largest(docs).name ELSE <<"N/A">>,
         all_tags |-> UNION {Range(docs[i].tags) : i \in 1..Len(docs)}]

\* index_content = generate_index(documents)
GenerateIndex ==
    /\ pc = "render"
    /\ index_content' = << generate_index(documents) >>
    /\ pc' = "write_index"
    /\ UNCHANGED <<files, reported, walkStack, curFiles, documents, listErrors, error,
                   indexFile, snapshotFile>>

----------------------------------------------------------------------------
(* main: the index file *)

\* what a file holds: what it held before the run, nothing (opened for
\* writing and truncated), or what this run wrote; content is the empty
\* sequence or the one value written
Previous == [state |-> "previous", content |-> <<>>]
Truncated == [state |-> "truncated", content |-> <<>>]  \* empty or cut short
Written(content) == [state |-> "written", content |-> << content >>]

\* open(index_path, 'w') raises: the file is not touched
WriteIndexOpenError ==
    /\ pc = "write_index"
    /\ pc' = "aborted"
    /\ error' = "index_open"
    /\ UNCHANGED <<files, reported, walkStack, curFiles, documents, listErrors,
                   index_content, indexFile, snapshotFile>>

\* f.write raises after the file was opened and truncated
WriteIndexWriteError ==
    /\ pc = "write_index"
    /\ indexFile' = Truncated
    /\ pc' = "aborted"
    /\ error' = "index_write"
    /\ UNCHANGED <<files, reported, walkStack, curFiles, documents, listErrors,
                   index_content, snapshotFile>>

\* with open(index_path, 'w') as f: f.write(index_content)
WriteIndex ==
    /\ pc = "write_index"
    /\ indexFile' = Written(index_content[1])
    /\ pc' = "write_snapshot"
    /\ UNCHANGED <<files, reported, walkStack, curFiles, documents, listErrors, error,
                   index_content, snapshotFile>>

----------------------------------------------------------------------------
(* update_metadata_json *)

\* the snapshot with the last document left out
MetadataShort(docs) ==
    [last_updated |-> "now",   \* datetime.now().isoformat(), not modelled further
     document_count |-> Len(docs),
     documents |-> [i \in 1..(Len(docs) - 1) |->
                      [path     |-> docs[i].path,
                       title    |-> docs[i].title,
                       category |-> docs[i].category,
                       tags     |-> docs[i].tags,
                       modified |-> IsoFormat(docs[i].modified),
                       size     |-> docs[i].size]]]

\* the metadata dict that is dumped
Metadata(docs) ==
    [last_updated |-> "now",   \* datetime.now().isoformat(), not modelled further
     document_count |-> Len(docs),
     documents |-> [i \in 1..Len(docs) |->
                      [path     |-> docs[i].path,
                       title    |-> docs[i].title,
                       category |-> docs[i].category,
                       tags     |-> docs[i].tags,
                       modified |-> IsoFormat(docs[i].modified),
                       size     |-> docs[i].size]]]

\* open(json_path, 'w') raises: the file is not touched
UpdateMetadataOpenError ==
    /\ pc = "write_snapshot"
    /\ pc' = "aborted"
    /\ error' = "snapshot_open"
    /\ UNCHANGED <<files, reported, walkStack, curFiles, documents, listErrors,
                   index_content, indexFile, snapshotFile>>

\* json.dump raises after the file was opened and truncated
UpdateMetadataDumpError ==
    /\ pc = "write_snapshot"
    /\ snapshotFile' = Truncated
    /\ pc' = "aborted"
    /\ error' = "snapshot_write"
    /\ UNCHANGED <<files, reported, walkStack, curFiles, documents, listErrors,
                   index_content, indexFile>>

\* the snapshot written before the index is
UpdateMetadataJsonEarly ==
    /\ pc = "write_index"
    /\ snapshotFile.state = "previous"
    /\ snapshotFile' = Written(Metadata(documents))
    /\ UNCHANGED <<files, reported, pc, walkStack, curFiles, documents, listErrors, error,
                   index_content, indexFile>>

\* with open(json_path, 'w') as f: json.dump(metadata, f, indent=2)
UpdateMetadataJson ==
    /\ pc = "write_snapshot"
    /\ snapshotFile' = Written(Metadata(documents))
    /\ pc' = "done"
    /\ UNCHANGED <<files, reported, walkStack, curFiles, documents, listErrors, error,
                   index_content, indexFile>>

----------------------------------------------------------------------------
(* The run *)

Next ==
    \/ WalkList
    \/ WalkListError
    \/ ScanSkip
    \/ ScanStatError
    \/ ScanAppend
    \/ ScanReturn
    \/ GenerateIndex
    \/ WriteIndexOpenError
    \/ WriteIndexWriteError
    \/ WriteIndex
    \/ UpdateMetadataOpenError
    \/ UpdateMetadataDumpError
    \/ UpdateMetadataJson

\* a name not yet bound; a bound name holds the one-element sequence of its value
Unassigned == <<>>

\* the state when main() is entered, for a tree whose files are fs
InitRun(fileSeqs) ==
    /\ files \in fileSeqs
    /\ pc = "scan"
    /\ walkStack = << <<>> >>
    /\ curFiles = <<>>
    /\ documents = <<>>
    /\ listErrors = {}
    /\ reported = <<>>
    /\ error = "none"
    /\ index_content = Unassigned
    /\ indexFile = Previous
    /\ snapshotFile = Previous

----------------------------------------------------------------------------
(* Trees the run starts from *)

\* strictly increasing index sequences of at most n members of 1..m
Choices(m, n) ==
    UNION {{c \in [1..k -> 1..m] : \A i, j \in 1..k : i < j => c[i] < c[j]} : k \in 0..n}

\* a document with a title line, two tag keywords and a paragraph
SampleContent == <<"#"," ","u","i","\n","\n","a","p","i">>

\* Spec: up to MaxFiles files over a tree with a plain directory, a hidden
\* directory and a directory below the hidden one
TreeDirs ==
    << <<>>,
       << <<"s","u","b">> >>,
       << <<".","g","i","t">> >>,
       << <<".","g","i","t">>, <<"d","e","e","p">> >> >>
TreeNames ==
    << <<"m","y","_","d","o","c","-","v","2",".","m","d">>,
       <<"a",".","m","d">>,
       INDEX_FILE,
       QUICK_REF_FILE,
       <<"n","o","t","e","s",".","t","x","t">> >>
TreePlace(k) ==
    [dir  |-> TreeDirs[((k - 1) \div Len(TreeNames)) + 1],
     name |-> TreeNames[((k - 1) % Len(TreeNames)) + 1]]
TreeFiles ==
    {[i \in 1..Len(c) |->
        [dir |-> TreePlace(c[i]).dir, name |-> TreePlace(c[i]).name,
         mtime |-> 0, content |-> SampleContent, readable |-> r[i]]] :
       <<c, r>> \in {<<c, r>> \in Choices(Len(TreeDirs) * Len(TreeNames), MaxFiles)
                                   \X UNION {[1..k -> BOOLEAN] : k \in 0..MaxFiles} :
                       /\ Len(r) = Len(c)
                       /\ \A i \in 1..Len(c) :
                             ~Eligible(TreePlace(c[i]).name) => r[i]}}

Init == InitRun(TreeFiles)
Spec == Init /\ [][Next]_vars

\* SpecExtract: the index of the last run and one document, whose content is
\* put together from at most MaxPieces pieces, the long one at most once
Filler == [i \in 1..(SummaryLimit - 1) |-> "z"]
Pieces ==
    << <<"#">>, <<"#","#">>, <<" ">>, <<"\n">>, <<"\n","\n">>,
       <<"L","o","g","i","n">>, <<"a","p","i">>, <<"u","i">>, Filler >>
RECURSIVE Flatten(_)
Flatten(ps) == IF ps = <<>> THEN <<>> ELSE Head(ps) \o Flatten(Tail(ps))
Contents ==
    {Flatten([i \in 1..Len(c) |-> Pieces[c[i]]]) :
       c \in {c \in UNION {[1..k -> 1..Len(Pieces)] : k \in 0..MaxPieces} :
                \A i, j \in 1..Len(c) :
                   (i # j /\ c[i] = Len(Pieces)) => c[j] # Len(Pieces)}}
OldIndex ==
    [dir |-> <<>>, name |-> INDEX_FILE, mtime |-> 0,
     content |-> SampleContent, readable |-> TRUE]
ExtractFiles ==
    {<< OldIndex,
        [dir |-> <<>>, name |-> TreeNames[1], mtime |-> 0,
         content |-> c, readable |-> TRUE] >> : c \in Contents}

InitExtract == InitRun(ExtractFiles)
SpecExtract == InitExtract /\ [][Next]_vars

\* SpecRecent: the index of the last run and up to MaxRecent documents in
\* the root, with every assignment of modification times
Digits == <<"1","2","3","4","5","6","7","8","9">>
RecentName(i) == <<"f", Digits[i]>> \o MdSuffix
RecentFiles ==
    {<< OldIndex >> \o
       [i \in 1..Len(m) |->
          [dir |-> <<>>, name |-> RecentName(i), mtime |-> m[i],
           content |-> SampleContent, readable |-> TRUE]] :
       m \in UNION {[1..k -> 0..MaxTime] : k \in 0..MaxRecent}}

InitRecent == InitRun(RecentFiles)
SpecRecent == InitRecent /\ [][Next]_vars

----------------------------------------------------------------------------
(* Properties *)

\* the file a record was made from
FileOf(doc) == files[CHOOSE i \in 1..Len(files) : RelPath(files[i]) = doc.path]

Docs == {documents[i] : i \in 1..Len(documents)}

\* the categories, by position in CATEGORY_PATTERNS, with a keyword in text
Matching(text) ==
    {i \in 1..Len(CATEGORY_PATTERNS) :
        \E k \in 1..Len(CATEGORY_PATTERNS[i].patterns) :
            Contains(CATEGORY_PATTERNS[i].patterns[k], text)}

\* the position of the first occurrence of p in text, 0 when there is none
FirstAt(p, text) ==
    IF Contains(p, text)
    THEN CHOOSE i \in 1..Len(text) :
            /\ i + Len(p) - 1 <= Len(text) /\ MatchAt(text, p, i)
            /\ \A j \in 1..(i-1) : ~(j + Len(p) - 1 <= Len(text) /\ MatchAt(text, p, j))
    ELSE 0

\* C1: the category of a record is the first label of CATEGORY_PATTERNS, in
\* declaration order, one of whose keywords occurs in the lower-cased
\* content, and "Uncategorized" when no keyword of any category occurs.
CategoryIsFirstMatch ==
    pc = "render" =>
        \A d \in Docs :
            LET m == Matching(Lower(FileOf(d).content))
            IN  IF m = {} THEN d.category = Uncategorized
                ELSE \E i \in m : /\ \A j \in m : i <= j
                                  /\ d.category = CATEGORY_PATTERNS[i].category

\* a content with keywords of two categories in which a keyword of the
\* category declared later comes first in the text
CategoryWitness ==
    /\ pc = "render"
    /\ \E d \in Docs :
          LET text == Lower(FileOf(d).content)
              m == Matching(text)
          IN  \E i, j \in m :
                /\ i < j
                /\ d.category = CATEGORY_PATTERNS[i].category
                /\ \E kj \in 1..Len(CATEGORY_PATTERNS[j].patterns) :
                      /\ Contains(CATEGORY_PATTERNS[j].patterns[kj], text)
                      /\ \A ki \in 1..Len(CATEGORY_PATTERNS[i].patterns) :
                            Contains(CATEGORY_PATTERNS[i].patterns[ki], text) =>
                               FirstAt(CATEGORY_PATTERNS[j].patterns[kj], text)
                                 < FirstAt(CATEGORY_PATTERNS[i].patterns[ki], text)

\* the pieces of a content between blank lines
RawParagraphs(content) == Split(content, BlankLine)

\* C2, as stated: the summary is computed from the first paragraph that is
\* not empty after trimming and does not start with '#'; it is that
\* paragraph when it has at most 200 characters, its first 200 characters
\* and "..." when it is longer, and empty when there is no such paragraph.
SummaryOfParagraphAsIs ==
    pc = "render" =>
        \A d \in Docs :
            LET ps == RawParagraphs(FileOf(d).content)
                q == {i \in 1..Len(ps) :
                        Strip(ps[i]) # <<>> /\ ~StartsWith(ps[i], HeaderMarker)}
            IN  IF q = {} THEN d.summary = <<>>
                ELSE LET p == ps[CHOOSE i \in q : \A j \in q : i <= j]
                     IN  IF Len(p) > SummaryLimit
                         THEN d.summary = SubSeq(p, 1, SummaryLimit) \o Ellipsis
                         ELSE d.summary = p

\* C2, amended: the paragraphs are the pieces of the content between
\* occurrences of "\n\n", each trimmed; the summary is computed from the
\* first trimmed paragraph that is not empty and does not start with '#'; it
\* is that trimmed paragraph when it has at most 200 characters, its first
\* 200 characters and "..." when it is longer, and empty when there is none.
SummaryOfTrimmedParagraph ==
    pc = "render" =>
        \A d \in Docs :
            LET ps == RawParagraphs(FileOf(d).content)
                q == {i \in 1..Len(ps) :
                        Strip(ps[i]) # <<>> /\ ~StartsWith(Strip(ps[i]), HeaderMarker)}
            IN  IF q = {} THEN d.summary = <<>>
                ELSE LET p == Strip(ps[CHOOSE i \in q : \A j \in q : i <= j])
                     IN  IF Len(p) > SummaryLimit
                         THEN d.summary = SubSeq(p, 1, SummaryLimit) \o Ellipsis
                         ELSE d.summary = p

\* a paragraph with white space around it that is longer than 200
\* characters once trimmed, cut to 200 characters and "..."
SummaryWitness ==
    /\ pc = "render"
    /\ \E d \in Docs :
          LET ps == RawParagraphs(FileOf(d).content)
          IN  /\ Len(ps) = 1
              /\ Strip(ps[1]) # ps[1]
              /\ Len(Strip(ps[1])) > SummaryLimit
              /\ Len(d.summary) = SummaryLimit + Len(Ellipsis)

\* the position of a tag in the tag keyword list, 0 for no tag of the list
TagIndex(t) ==
    IF \E k \in 1..Len(tag_patterns) : t = <<"#">> \o tag_patterns[k]
    THEN CHOOSE k \in 1..Len(tag_patterns) : t = <<"#">> \o tag_patterns[k]
    ELSE 0

\* C3: the tags of a record follow the order of the tag keyword list, hold
\* no tag twice, and hold "#k" exactly when keyword k occurs in the
\* lower-cased content.
TagsInListOrder ==
    pc = "render" =>
        \A d \in Docs :
            /\ \A i \in 1..Len(d.tags) : TagIndex(d.tags[i]) > 0
            /\ \A i, j \in 1..Len(d.tags) :
                  i < j => TagIndex(d.tags[i]) < TagIndex(d.tags[j])
            /\ \A k \in 1..Len(tag_patterns) :
                  (\E i \in 1..Len(d.tags) : d.tags[i] = <<"#">> \o tag_patterns[k])
                    <=> Contains(tag_patterns[k], Lower(FileOf(d).content))

\* two keywords in the text in the reverse of their list order, the one
\* later in the text occurring twice
TagsWitness ==
    /\ pc = "render"
    /\ \E d \in Docs :
          LET text == Lower(FileOf(d).content)
          IN  \E a, b \in 1..Len(tag_patterns) :
                /\ a < b
                /\ Contains(tag_patterns[a], text) /\ Contains(tag_patterns[b], text)
                /\ FirstAt(tag_patterns[b], text) < FirstAt(tag_patterns[a], text)
                /\ Cardinality({i \in 1..Len(text) :
                      /\ i + Len(tag_patterns[a]) - 1 <= Len(text)
                      /\ MatchAt(text, tag_patterns[a], i)}) > 1
                /\ Len(d.tags) = 2

\* C4: after a run that completes, the snapshot's document_count is the
\* number of scanned documents and every scanned path occurs exactly once
\* among the snapshot's documents, which hold no other path.
SnapshotMatchesScan ==
    pc = "done" =>
        /\ snapshotFile.state = "written"
        /\ LET snap == snapshotFile.content[1]
           IN  /\ snap.document_count = Len(documents)
               /\ \A d \in Docs :
                     Cardinality({j \in 1..Len(snap.documents) :
                                     snap.documents[j].path = d.path}) = 1
               /\ \A j \in 1..Len(snap.documents) :
                     \E d \in Docs : d.path = snap.documents[j].path

\* a completed run over two documents
SnapshotWitness ==
    /\ pc = "done"
    /\ Len(documents) = 2
    /\ documents[1].path # documents[2].path

\* a directory of the path of f has a name starting with '.'
BelowHidden(f) == \E n \in 1..Len(f.dir) : StartsWith(f.dir[n], <<".">>)

\* the listing of a directory of the path of f, the root included, failed
BelowUnlisted(f) == \E n \in 0..Len(f.dir) : SubSeq(f.dir, 1, n) \in listErrors

HasRecord(f) == \E d \in Docs : d.path = RelPath(f)

\* C5: scan_documents returns a record for a file of the tree exactly when
\* its name ends with ".md", is neither INDEX.md nor QUICK_REFERENCE.md, and
\* no directory between the root and the file has a name starting with '.'.
RecordIffEligible ==
    pc = "render" =>
        \A i \in 1..Len(files) :
            HasRecord(files[i]) <=>
                /\ EndsWith(files[i].name, MdSuffix)
                /\ files[i].name # INDEX_FILE
                /\ files[i].name # QUICK_REF_FILE
                /\ ~BelowHidden(files[i])

\* C5 holds of the runs in which every directory could be listed
RecordIffEligibleWhenListed ==
    (pc = "render" /\ listErrors = {}) =>
        \A i \in 1..Len(files) :
            HasRecord(files[i]) <=>
                /\ EndsWith(files[i].name, MdSuffix)
                /\ files[i].name # INDEX_FILE
                /\ files[i].name # QUICK_REF_FILE
                /\ ~BelowHidden(files[i])

\* C6: when a directory could not be listed the run aborts and neither the
\* index file nor the snapshot file is written.
ListErrorIsFatal ==
    listErrors # {} =>
        /\ pc # "done"
        /\ indexFile.state # "written"
        /\ snapshotFile.state # "written"

\* "My Doc V2", the title derived from my_doc-v2.md
MyDocTitle == <<"M","y"," ","D","o","c"," ","V","2">>

\* C7: a document whose content cannot be read still gets a record, with the
\* title derived from the file name, category "Uncategorized" and empty
\* tags, summary and headers, and its error is printed; the scan goes on:
\* when it returns, every document the walk came to has its record.
ReadErrorGivesDefaults ==
    pc = "render" =>
        \A i \in 1..Len(files) :
            (Eligible(files[i].name) /\ ~BelowHidden(files[i]) /\ ~BelowUnlisted(files[i]))
            =>  /\ Cardinality({j \in 1..Len(documents) :
                                  documents[j].path = RelPath(files[i])}) = 1
                /\ ~files[i].readable =>
                     \E k \in 1..Len(reported) :
                        reported[k] = DOCS_DIR \o RelPath(files[i])
                /\ ~files[i].readable =>
                     \A d \in Docs :
                        d.path = RelPath(files[i]) =>
                           /\ d.category = "Uncategorized"
                           /\ d.tags = <<>> /\ d.summary = <<>> /\ d.headers = <<>>
                           /\ Lower(d.title) =
                                Lower(ReplaceChar(ReplaceChar(
                                    SubSeq(d.name, 1, Len(d.name) - Len(MdSuffix)),
                                    "_", " "), "-", " "))
                           /\ d.name = TreeNames[1] => d.title = MyDocTitle

\* an unreadable document scanned before a readable one, both in the result
ReadErrorWitness ==
    /\ pc = "render"
    /\ \E i, j \in 1..Len(documents) :
          /\ i < j
          /\ ~FileOf(documents[i]).readable
          /\ documents[i].title = MyDocTitle
          /\ FileOf(documents[j]).readable
          /\ documents[j].category # "Uncategorized"

\* the number of '#' a line begins with
LeadingMarkers(line) == Len(line) - Len(LStripMarker(line))

RECURSIVE HeadersByMarkers(_, _)
HeadersByMarkers(lines, i) ==
    IF i > Len(lines) THEN <<>>
    ELSE (IF LeadingMarkers(lines[i]) \in 1..HeaderMaxLevel
          THEN << [level |-> LeadingMarkers(lines[i]),
                   text  |-> Strip(LStripMarker(lines[i]))] >>
          ELSE <<>>)
         \o HeadersByMarkers(lines, i + 1)

\* C8: the headers of a record are, in document order, the lines that begin
\* with 1, 2 or 3 '#', each with the number of its leading '#' as level and
\* the line without them, trimmed, as text.
HeadersCountMarkers ==
    pc = "render" =>
        \A d \in Docs :
            d.headers = HeadersByMarkers(Split(FileOf(d).content, Newline), 1)

\* the position in documents of the record with path p
ScanIndex(p) == CHOOSE i \in 1..Len(documents) : documents[i].path = p

\* record i comes before record j in the order of recency: modified later,
\* or modified at the same time and scanned earlier
Before(i, j) ==
    \/ documents[i].modified > documents[j].modified
    \/ documents[i].modified = documents[j].modified /\ i < j

\* C9: the quick-access section lists min(5, number of records) records, the
\* most recently modified ones, latest first, records modified at the same
\* time in scan order, also at the cut.
QuickAccessIsRecent ==
    index_content # Unassigned =>
        LET q == index_content[1].quick
            listed == {ScanIndex(q[k].path) : k \in 1..Len(q)}
        IN  /\ Len(q) = (IF Len(documents) < QuickCount THEN Len(documents) ELSE QuickCount)
            /\ \A k \in 1..Len(q) : \E d \in Docs : d.path = q[k].path
            /\ \A k, l \in 1..Len(q) :
                  k < l => Before(ScanIndex(q[k].path), ScanIndex(q[l].path))
            /\ \A i \in listed : \A j \in (1..Len(documents)) \ listed : Before(i, j)

\* more than five records, one left out that was modified at the same time
\* as the last one listed, and two listed ones modified at the same time
QuickAccessWitness ==
    /\ index_content # Unassigned
    /\ Len(documents) > QuickCount
    /\ LET q == index_content[1].quick
           listed == {ScanIndex(q[k].path) : k \in 1..Len(q)}
       IN  /\ \E j \in (1..Len(documents)) \ listed :
                 documents[j].modified = documents[ScanIndex(q[Len(q)].path)].modified
           /\ \E k \in 1..(Len(q) - 1) :
                 documents[ScanIndex(q[k].path)].modified
                   = documents[ScanIndex(q[k+1].path)].modified

\* C10: the stages run in the order scan, render, write index, write
\* snapshot; the snapshot file is touched only after the index was written;
\* when writing the index fails the snapshot file is as before the run; when
\* writing the snapshot fails the index written by this run stays.
StagesInOrder ==
    /\ index_content # Unassigned => pc \notin {"scan", "render"}
    /\ indexFile.state # "previous" => index_content # Unassigned
    /\ snapshotFile.state # "previous" =>
          /\ indexFile = Written(generate_index(documents))
          /\ pc \in {"aborted", "done"}
    /\ error \in {"index_open", "index_write"} => snapshotFile.state = "previous"
    /\ error \in {"snapshot_open", "snapshot_write"} =>
          indexFile = Written(generate_index(documents))
    /\ pc = "done" => indexFile.state = "written" /\ snapshotFile.state = "written"

\* the snapshot write failed after the index was written
StagesWitness ==
    /\ error = "snapshot_write"
    /\ snapshotFile.state = "truncated"
    /\ indexFile.state = "written"
    /\ Len(documents) > 0

====
